---- MODULE Spec2Model ----
(***************************************************************************)
(* Model of angustools/heat/heating_system_design.py:                      *)
(*   maximise_thermal_energy_output(ts, min_val_rel)  -- the sizer         *)
(*   calculate_nominal_heat_by_tech(technologies, ts) -- the cascade       *)
(*                                                                         *)
(* Heat loads are integers: one unit is 1/Res of the rounding quantum of   *)
(* Series.round(5), so a load v stands for v/Res * 1e-5.  min_val_rel is a *)
(* reduced fraction <<num, den>>, and ts >= Q * min_val_rel is decided as  *)
(* d * den >= Q * num.                                                     *)
(***************************************************************************)
EXTENDS Integers, Sequences, FiniteSets, TLC

\* ---------------------------------------------------------------- bounds
\* longest curve and largest load handed directly to the sizer
MaxLen == 5
MaxVal == 10
\* largest denominator of min_val_rel
MaxDen == 2
\* curves of the insertion experiment (monotonicity of the best area)
MonoLen == 3
MonoVal == 5
\* cascade: longest input curve, largest load, most technologies,
\* load units per rounding quantum
CascLen == 3
CascVal == 6
MaxTech == 3
Res == 2

\* ------------------------------------------------------- python sentinels
\* np.nan as Q_old: equal to no load (loads are >= 0)
NaN == -1
\* the local Q_nom before its first assignment
Unbound == -2

VARIABLES
    curve,          \* sizer: the caller's ts
    min_val_rel,    \* sizer: the argument min_val_rel
    ts,             \* sizer: the local copy of ts
    area,           \* sizer: local area
    counter,        \* sizer: local counter
    Q_old,          \* sizer: local Q_old
    Q_nom,          \* sizer: local Q_nom
    pos,            \* sizer: position of the for loop in ts.values
    pc,             \* sizer: "loop", "returned", "raised"
    cand,           \* sizer: the <<Q, area_full_load + area_part_load>> evaluated so far
    ts_in,          \* cascade: the argument ts as passed by the caller
    n_tech,         \* cascade: len(technologies.index)
    technologies,   \* cascade: the column Q_min_rel, as far as the loop has read it
    ts_casc,        \* cascade: the local ts, reassigned each iteration
    tech,           \* cascade: position of the for loop in technologies.index
    Q_nom_col,      \* cascade: the column Q_nom written so far
    Q_min_col,      \* cascade: the column Q_min
    cpc,            \* cascade: "loop", "returned", "raised"
    handed,         \* cascade: the curves handed to the sizer so far
    areas           \* cascade: the sizer's final area of each completed call

sizerVars == <<curve, min_val_rel, ts, area, counter, Q_old, Q_nom, pos, pc, cand>>
cascVars == <<ts_in, n_tech, technologies, ts_casc, tech, Q_nom_col, Q_min_col, cpc, handed, areas>>
vars == <<curve, min_val_rel, ts, area, counter, Q_old, Q_nom, pos, pc, cand,
          ts_in, n_tech, technologies, ts_casc, tech, Q_nom_col, Q_min_col, cpc, handed, areas>>

\* ------------------------------------------------------------- helpers
RECURSIVE SumSeq(_)
\* Series.sum()
SumSeq(s) == IF s = <<>> THEN 0 ELSE Head(s) + SumSeq(Tail(s))

Range(s) == {s[i] : i \in 1..Len(s)}

RECURSIVE InsertDesc(_, _)
\* s, sorted descending, with the sample x put at its place
InsertDesc(s, x) ==
    IF s = <<>> THEN <<x>>
    ELSE IF x >= Head(s) THEN <<x>> \o s
    ELSE <<Head(s)>> \o InsertDesc(Tail(s), x)

RECURSIVE SortDesc(_)
\* line 121: sort_values(ascending=False)
SortDesc(s) == IF s = <<>> THEN <<>> ELSE InsertDesc(SortDesc(Tail(s)), Head(s))

\* ts >= Q * min_val_rel for one sample d
GeRel(d, q, m) == d * m[2] >= q * m[1]

\* ---------------------------------------------------------------- sizer
\* the full-load count taken from the counter itself
area_full_load_off(q, c) == q * c

\* line 66
area_full_load(q, c) == q * (c - 1)

\* the part-load band without its upper edge: ts < Q
area_part_load_open(s, q, m) ==
    SumSeq(SelectSeq(s, LAMBDA d : d < q /\ GeRel(d, q, m)))

\* line 67: ts[(ts <= Q) & (ts >= Q * min_val_rel)].sum()
area_part_load(s, q, m) ==
    SumSeq(SelectSeq(s, LAMBDA d : d <= q /\ GeRel(d, q, m)))

\* the comparison with <=: the last of several equal areas wins
Better_le(a, new) == a <= new

\* the comparison dropped: every candidate replaces the running best
Better_always(a, new) == TRUE

\* line 69: the comparison that keeps the running best
Better(a, new) == a < new

\* lines 58-60: the locals before the loop
SweepInit == [area |-> 0, counter |-> 1, Q_old |-> NaN, Q_nom |-> Unbound]

\* lines 62-74: one pass of the loop body for the sample q
SweepBody(st, s, q, m) ==
    IF q = st.Q_old
    THEN [st EXCEPT !.counter = @ + 1]
    ELSE LET new == area_full_load(q, st.counter) + area_part_load(s, q, m)
         IN  [area    |-> IF Better(st.area, new) THEN new ELSE st.area,
              Q_nom   |-> IF Better(st.area, new) THEN q ELSE st.Q_nom,
              counter |-> st.counter + 1,
              Q_old   |-> q]

RECURSIVE Sweep(_, _, _)
\* lines 58-74: the loop over the first k samples
Sweep(s, m, k) ==
    IF k = 0 THEN SweepInit ELSE SweepBody(Sweep(s, m, k - 1), s, s[k], m)

\* the band mask without its upper edge: ts < Q_nom
MaskBand_open(s, q, m) ==
    [i \in 1..Len(s) |-> IF s[i] < q /\ GeRel(s[i], q, m) THEN 0 ELSE s[i]]

\* line 76: ts[(ts <= Q_nom) & (ts >= Q_nom * min_val_rel)] = 0
MaskBand(s, q, m) ==
    [i \in 1..Len(s) |-> IF s[i] <= q /\ GeRel(s[i], q, m) THEN 0 ELSE s[i]]

\* line 77: ts[(ts > Q_nom)] = ts - Q_nom
MaskExcess(s, q) ==
    [i \in 1..Len(s) |-> IF s[i] > q THEN s[i] - q ELSE s[i]]

\* lines 77 and 76 in the opposite order
Residual_swapped(s, q, m) == MaskBand(MaskExcess(s, q), q, m)

\* lines 76-77 in order
Residual(s, q, m) == MaskExcess(MaskBand(s, q, m), q)

\* lines 57-79 as one call; raised: line 76 reads Q_nom before any assignment
maximise_thermal_energy_output(s, m) ==
    LET st == Sweep(s, m, Len(s))
    IN  IF st.Q_nom = Unbound
        THEN [raised |-> TRUE, Q_nom |-> Unbound, area |-> st.area, ts |-> s]
        ELSE [raised |-> FALSE, Q_nom |-> st.Q_nom, area |-> st.area,
              ts |-> Residual(s, st.Q_nom, m)]

\* ------------------------------------------------------- sizer, stepwise
RECURSIVE Desc(_, _)
\* the descending curves of k samples, each in 1..v
Desc(k, v) ==
    IF k = 0 THEN {<<>>}
    ELSE UNION {{<<x>> \o s : s \in Desc(k - 1, x)} : x \in 1..v}

DescCurves(n, v) == UNION {Desc(k, v) : k \in 1..n}

RECURSIVE Gcd(_, _)
Gcd(a, b) == IF b = 0 THEN a ELSE Gcd(b, a % b)

\* min_val_rel in [0, 1] as reduced fractions
MinRels == {<<n, d>> \in (0..MaxDen) \X (1..MaxDen) : n <= d /\ Gcd(n, d) = 1}

CascIdle ==
    /\ ts_in = <<>>
    /\ n_tech = 0
    /\ technologies = <<>>
    /\ ts_casc = <<>>
    /\ tech = 0
    /\ Q_nom_col = <<>>
    /\ Q_min_col = <<>>
    /\ cpc = "idle"
    /\ handed = <<>>
    /\ areas = <<>>

\* lines 57-60: entry of the sizer on the caller's curve c
SizerEntry(c, m) ==
    /\ curve = c
    /\ min_val_rel = m
    /\ ts = c
    /\ area = SweepInit.area
    /\ counter = SweepInit.counter
    /\ Q_old = SweepInit.Q_old
    /\ Q_nom = SweepInit.Q_nom
    /\ pos = 1
    /\ pc = "loop"
    /\ cand = <<>>

InitSizer ==
    /\ \E c \in DescCurves(MaxLen, MaxVal), m \in MinRels : SizerEntry(c, m)
    /\ CascIdle

InitMono ==
    /\ \E c \in DescCurves(MonoLen, MonoVal), m \in MinRels : SizerEntry(c, m)
    /\ CascIdle

\* lines 61-74: one iteration of the for loop
LoopStep ==
    /\ pc = "loop"
    /\ pos <= Len(ts)
    /\ LET q == ts[pos]
           st == SweepBody([area |-> area, counter |-> counter,
                            Q_old |-> Q_old, Q_nom |-> Q_nom], ts, q, min_val_rel)
       IN  /\ area' = st.area
           /\ counter' = st.counter
           /\ Q_old' = st.Q_old
           /\ Q_nom' = st.Q_nom
           /\ cand' = IF q = Q_old THEN cand
                      ELSE Append(cand, <<q, area_full_load(q, counter)
                                             + area_part_load(ts, q, min_val_rel)>>)
    /\ pos' = pos + 1
    /\ UNCHANGED <<curve, min_val_rel, ts, pc>>
    /\ UNCHANGED cascVars

\* lines 76-79: the residual and the return
Return ==
    /\ pc = "loop"
    /\ pos > Len(ts)
    /\ IF Q_nom = Unbound
       THEN /\ pc' = "raised"
            /\ ts' = ts
       ELSE /\ pc' = "returned"
            /\ ts' = Residual(ts, Q_nom, min_val_rel)
    /\ UNCHANGED <<curve, min_val_rel, area, counter, Q_old, Q_nom, pos, cand>>
    /\ UNCHANGED cascVars

NextSizer == LoopStep \/ Return

SpecSizer == InitSizer /\ [][NextSizer]_vars

SpecMono == InitMono /\ [][NextSizer]_vars

\* ------------------------------------------------ claims about the sizer
RECURSIVE SumOver(_, _)
\* the sum of the samples of c at the positions in S
SumOver(c, S) ==
    IF S = {} THEN 0
    ELSE LET i == CHOOSE x \in S : TRUE IN c[i] + SumOver(c, S \ {i})

\* A(Q) = Q * |{t : d_t > Q}| + sum of the d_t with Q*min_rel <= d_t <= Q
DeliveredEnergy(c, q, m) ==
    q * Cardinality({i \in 1..Len(c) : c[i] > q})
    + SumOver(c, {i \in 1..Len(c) : c[i] <= q /\ c[i] * m[2] >= q * m[1]})

\* C1: the returned Q_nom is a distinct demand value of the curve, no distinct
\* demand value delivers more energy A, and every larger distinct demand
\* value delivers strictly less.
C1_LargestMaximiser ==
    pc = "returned" =>
        /\ Q_nom \in Range(curve)
        /\ \A q \in Range(curve) :
            /\ DeliveredEnergy(curve, q, min_val_rel)
                 <= DeliveredEnergy(curve, Q_nom, min_val_rel)
            /\ q > Q_nom => DeliveredEnergy(curve, q, min_val_rel)
                              < DeliveredEnergy(curve, Q_nom, min_val_rel)

\* a returned call in which a smaller demand value ties with Q_nom
C1_Witness ==
    /\ pc = "returned"
    /\ \E q \in Range(curve) :
        /\ q < Q_nom
        /\ DeliveredEnergy(curve, q, min_val_rel)
             = DeliveredEnergy(curve, Q_nom, min_val_rel)

\* C2: the residual has the length of the input and, position by position,
\* is 0 inside the band [Q_nom*min_rel, Q_nom], d - Q_nom above Q_nom and d
\* below the band; no residual sample is negative or above its input sample.
C2_ResidualDispatch ==
    pc = "returned" =>
        /\ Len(ts) = Len(curve)
        /\ \A i \in 1..Len(curve) :
            LET d == curve[i]
                inBand == d <= Q_nom /\ d * min_val_rel[2] >= Q_nom * min_val_rel[1]
            IN  /\ inBand => ts[i] = 0
                /\ d > Q_nom => ts[i] = d - Q_nom
                /\ d * min_val_rel[2] < Q_nom * min_val_rel[1] => ts[i] = d
                /\ 0 <= ts[i] /\ ts[i] <= d

\* a returned call whose curve has a sample in each of the three cases
C2_Witness ==
    /\ pc = "returned"
    /\ \E i, j, k \in 1..Len(curve) :
        /\ curve[i] > Q_nom /\ ts[i] = curve[i] - Q_nom
        /\ curve[j] <= Q_nom /\ ts[j] = 0
        /\ curve[k] * min_val_rel[2] < Q_nom * min_val_rel[1] /\ ts[k] = curve[k]

ExampleCall ==
    /\ curve = <<10, 10, 8, 6, 4>>
    /\ min_val_rel = <<1, 2>>
    /\ pc = "returned"

\* C5 as stated: the example evaluates 10, 8, 6, 4 to 20, 30, 28, 20 and
\* returns Q_nom = 8, best area 30, residual [2, 2, 0, 0, 4].
C5_ExampleAsStated ==
    ExampleCall =>
        /\ cand = << <<10, 20>>, <<8, 30>>, <<6, 28>>, <<4, 20>> >>
        /\ Q_nom = 8
        /\ area = 30
        /\ ts = <<2, 2, 0, 0, 4>>

\* C5 amended: the example evaluates 10, 8, 6, 4 to 34, 34, 28, 20 and
\* returns Q_nom = 10, best area 34, residual [0, 0, 0, 0, 4].
C5_ExampleAmended ==
    ExampleCall =>
        /\ cand = << <<10, 34>>, <<8, 34>>, <<6, 28>>, <<4, 20>> >>
        /\ Q_nom = 10
        /\ area = 34
        /\ ts = <<0, 0, 0, 0, 4>>

\* the example call has returned, all four candidates evaluated
C5_Witness == ExampleCall /\ Len(cand) = 4

\* C6: with min_rel = 0 the returned Q_nom is the maximum of the curve and
\* every residual sample is 0.
C6_ZeroMinRel ==
    (pc = "returned" /\ min_val_rel[1] = 0) =>
        /\ \A i \in 1..Len(curve) : Q_nom >= curve[i]
        /\ Q_nom \in Range(curve)
        /\ \A i \in 1..Len(ts) : ts[i] = 0

\* a returned call with min_rel = 0 on a curve of several distinct values
C6_Witness ==
    /\ pc = "returned"
    /\ min_val_rel[1] = 0
    /\ Cardinality(Range(curve)) >= 3

\* C8 as stated: no capacity Q > 0, demand value or not, delivers more energy
\* than the returned Q_nom (capacities taken on the integer grid 1..MaxVal).
C8_ReductionExact ==
    pc = "returned" =>
        \A q \in 1..MaxVal :
            DeliveredEnergy(curve, q, min_val_rel)
              <= DeliveredEnergy(curve, Q_nom, min_val_rel)

\* most samples inserted at once in the insertion experiment
MaxExtra == 2

\* C7: inserting samples that are all at or above Q_min = Q_nom * min_rel
\* (and re-sorting descending) never lowers the best area the sizer finds.
C7_Monotone ==
    pc = "returned" =>
        \A extra \in DescCurves(MaxExtra, MonoVal) :
            (\A i \in 1..Len(extra) : GeRel(extra[i], Q_nom, min_val_rel)) =>
                LET r == maximise_thermal_energy_output(
                             SortDesc(curve \o extra), min_val_rel)
                IN  ~r.raised /\ r.area >= area

\* a returned call with min_rel > 0 for which some sample lies below Q_min
\* and some admissible insertion raises the best area
C7_Witness ==
    /\ pc = "returned"
    /\ min_val_rel[1] > 0
    /\ \E e \in 1..MonoVal : ~GeRel(e, Q_nom, min_val_rel)
    /\ \E extra \in DescCurves(MaxExtra, MonoVal) :
        /\ \A i \in 1..Len(extra) : GeRel(extra[i], Q_nom, min_val_rel)
        /\ maximise_thermal_energy_output(
               SortDesc(curve \o extra), min_val_rel).area > area

\* -------------------------------------------------------------- cascade
\* Series.round(5) of one load: to the nearest multiple of Res, halves to even
Round5(v) ==
    LET q == v \div Res
        r == v % Res
    IN  Res * (IF 2 * r < Res THEN q
               ELSE IF 2 * r > Res THEN q + 1
               ELSE IF q % 2 = 0 THEN q ELSE q + 1)

\* line 120, first half: ts[ts > 0]
Positive(s) == SelectSeq(s, LAMBDA d : d > 0)

\* line 120, second half: .round(5)
RoundAll(s) == [i \in 1..Len(s) |-> Round5(s[i])]

\* lines 120-122: filter, round, sort descending, reset the index
Prepare(s) == SortDesc(RoundAll(Positive(s)))

AllCurves(n, v) == UNION {[1..k -> 0..v] : k \in 1..n}

SizerIdle ==
    /\ curve = <<>>
    /\ min_val_rel = <<0, 1>>
    /\ ts = <<>>
    /\ area = 0
    /\ counter = 0
    /\ Q_old = NaN
    /\ Q_nom = Unbound
    /\ pos = 0
    /\ pc = "idle"
    /\ cand = <<>>

\* entry of calculate_nominal_heat_by_tech: a table of 1..MaxTech technologies
\* and a curve of non-negative loads in any order
InitCascade ==
    /\ ts_in \in AllCurves(CascLen, CascVal)
    /\ n_tech \in 1..MaxTech
    /\ technologies = <<>>
    /\ ts_casc = ts_in
    /\ tech = 1
    /\ Q_nom_col = <<>>
    /\ Q_min_col = <<>>
    /\ cpc = "loop"
    /\ handed = <<>>
    /\ areas = <<>>
    /\ SizerIdle

\* lines 119-125: one iteration of the loop over technologies.index; the
\* technology's Q_min_rel is drawn when the loop reads it
Iterate ==
    /\ cpc = "loop"
    /\ tech <= n_tech
    /\ \E m \in MinRels :
        LET w == Prepare(ts_casc)
            r == maximise_thermal_energy_output(w, m)
        IN  /\ technologies' = Append(technologies, m)
            /\ handed' = Append(handed, w)
            /\ IF r.raised
               THEN /\ cpc' = "raised"
                    /\ ts_casc' = w
                    /\ UNCHANGED <<tech, Q_nom_col, areas>>
               ELSE /\ cpc' = cpc
                    /\ ts_casc' = r.ts
                    /\ tech' = tech + 1
                    /\ Q_nom_col' = Append(Q_nom_col, r.Q_nom)
                    /\ areas' = Append(areas, r.area)
    /\ UNCHANGED <<ts_in, n_tech, Q_min_col>>
    /\ UNCHANGED sizerVars

\* lines 127-128: Q_min = Q_nom * Q_min_rel, as the fraction <<num, den>>
Finish ==
    /\ cpc = "loop"
    /\ tech > n_tech
    /\ Q_min_col' = [i \in 1..Len(Q_nom_col) |->
                        <<Q_nom_col[i] * technologies[i][1], technologies[i][2]>>]
    /\ cpc' = "returned"
    /\ UNCHANGED <<ts_in, n_tech, technologies, ts_casc, tech, Q_nom_col, handed, areas>>
    /\ UNCHANGED sizerVars

NextCascade == Iterate \/ Finish

SpecCascade == InitCascade /\ [][NextCascade]_vars

\* ---------------------------------------------- claims about the cascade
\* C3 as stated: a technology whose working curve is empty after the positive
\* filter gets Q_nom = 0, Q_min = 0 and coverage 0, and nothing is raised.
C3_EmptyCurveZeroResult ==
    \A i \in 1..Len(handed) :
        handed[i] = <<>> =>
            /\ cpc # "raised"
            /\ Len(Q_nom_col) >= i /\ Q_nom_col[i] = 0
            /\ Len(areas) >= i /\ areas[i] = 0
            /\ cpc = "returned" => Q_min_col[i][1] = 0

\* C4 as stated: for a positive input curve, after every prefix of sized
\* technologies the coverages (best area / sum of the original curve) sum
\* to at most 1.
C4_CoverageAtMostOne ==
    (\A i \in 1..Len(ts_in) : ts_in[i] > 0) => SumSeq(areas) <= SumSeq(ts_in)

\* C9 as stated: every curve handed to the sizer holds only samples > 0, in
\* descending order.
C9_SizerInputConstraints ==
    \A i \in 1..Len(handed) :
        /\ \A j \in 1..Len(handed[i]) : handed[i][j] > 0
        /\ \A j \in 1..(Len(handed[i]) - 1) : handed[i][j] >= handed[i][j + 1]

PosCount(s) == Len(Positive(s))

\* C10: each returned Q_nom is a sample of the curve handed to the sizer; the
\* number of positive samples of the working curve strictly decreases with
\* each sized technology; and a cascade with more technologies than the input
\* has positive samples has no positive sample left on entry to its last
\* technology, or when it ends before.
C10_Progress ==
    /\ \A i \in 1..Len(Q_nom_col) :
        /\ Q_nom_col[i] \in Range(handed[i])
        /\ PosCount(IF i < Len(handed) THEN handed[i + 1] ELSE ts_casc)
             < PosCount(handed[i])
    /\ PosCount(ts_casc) + Len(Q_nom_col) <= PosCount(ts_in)
    /\ (n_tech > PosCount(ts_in) /\ (cpc # "loop" \/ tech = n_tech))
          => PosCount(ts_casc) = 0

\* a cascade of more technologies than positive samples stands at the entry
\* of its last technology, every earlier technology sized
C10_Witness ==
    /\ cpc = "loop"
    /\ tech = n_tech
    /\ n_tech > PosCount(ts_in)
    /\ Len(Q_nom_col) = 2
    /\ PosCount(ts_in) = 2

====
